---- MODULE Spec2Model ----
(***************************************************************************)
(* Model of kpis_advanced.py: the tag parser (_split_tags), the metrics    *)
(* engine (compute_metrics), the distribution engine                       *)
(* (compute_call_distribution) and the filter engine (apply_filters).      *)
(*                                                                         *)
(* A DataFrame is a record                                                 *)
(*    [raised  : the exception that ended the call producing it, or        *)
(*               NoError,                                                  *)
(*     columns : the set of column names it has,                           *)
(*     rows    : the sequence of its rows, in positional order].           *)
(* A row is a function from "idx" (its pandas index label) and the column  *)
(* names of the frame to cells.  A boolean pandas Series is a function     *)
(* from index labels to BOOLEAN.                                           *)
(***************************************************************************)
EXTENDS Integers, Sequences, FiniteSets, TLC

VARIABLES df, crit, pc, steps, filtered, refiltered, metrics, dist

vars == <<df, crit, pc, steps, filtered, refiltered, metrics, dist>>

(***************************************************************************)
(* Bounds of the model.                                                    *)
(***************************************************************************)
MaxRows == 2

(***************************************************************************)
(* Column names of the CRM export.                                         *)
(***************************************************************************)
COL_TS == "Last Aircall call timestamp"
COL_TAGS == "Last used Aircall tags"
COL_STATUS == "lemlist lead status"
COL_PHASE == "Phase du cycle de vie"
COL_ACT == "Date de la dernière activité"
COL_CAMP == "Campagne"
COL_TITLE == "Intitulé du poste"
COL_SECTOR == "Secteur"
COL_SIZE == "Taille d'entreprise"
COL_LOC == "Localisation"

(***************************************************************************)
(* Cells.  A string cell is a string, NaN being the missing value.  A      *)
(* timestamp cell is a record: missing (NaN / NaT), a text as read from    *)
(* the file, or an instant (after pd.to_datetime).  A tags cell is missing *)
(* or a text, a text being the sequence of its pieces: whole words, the    *)
(* delimiters "," ";" "|" and the blank " ".                               *)
(***************************************************************************)
NaN == "NaN"

NaT == [k |-> "nan", s |-> "", t |-> 0]
Text(s) == [k |-> "text", s |-> s, t |-> 0]
Instant(t) == [k |-> "instant", s |-> "", t |-> t]

NoTags == [nan |-> TRUE, text |-> <<>>]
Tags(text) == [nan |-> FALSE, text |-> text]

NoError == "none"

\* The value of column col in row r: data[col] for that row.
Cell(r, col) == r[col]

\* Row r with column col set to v: data[col] = v for that row.
WithCell(r, col, v) == [c \in (DOMAIN r) \cup {col} |-> IF c = col THEN v ELSE r[c]]

(***************************************************************************)
(* pandas primitives used by the code.                                     *)
(***************************************************************************)
Range(s) == {s[i] : i \in 1..Len(s)}

\* The index labels of a frame.
Labels(d) == {d.rows[i].idx : i \in 1..Len(d.rows)}

\* The row of d labelled l.
RowAt(d, l) == d.rows[CHOOSE i \in 1..Len(d.rows) : d.rows[i].idx = l]

\* An exception propagating out of the call.
Raise(d, e) == [raised |-> e, columns |-> d.columns, rows |-> <<>>]

\* The texts pd.to_datetime parses, and the instant each denotes.
DateOf == [s \in {"2024-01-01", "2024-03-01"} |->
              IF s = "2024-01-01" THEN 1 ELSE 3]

\* pd.to_datetime(cell, errors="coerce"): invalid parsing yields NaT.
ToDatetime(c) ==
    IF c.k = "text"
    THEN IF c.s \in DOMAIN DateOf THEN Instant(DateOf[c.s]) ELSE NaT
    ELSE c

\* Series.notna() of a timestamp cell: any value but NaN / NaT is present.
NotNa(c) == c.k # "nan"

\* data[col] = pd.to_datetime(data[col], errors="coerce")
ConvertColumn(d, col) ==
    IF col \in d.columns
    THEN [d EXCEPT !.rows =
             [i \in 1..Len(d.rows) |->
                 WithCell(d.rows[i], col, ToDatetime(Cell(d.rows[i], col)))]]
    ELSE d

\* pd.Series([False] * len(data)): labelled 0 .. len(data)-1.
FalseSeries(d) == [l \in 0..(Len(d.rows) - 1) |-> FALSE]

\* data[col].notna() & (data[col] >= bound), labelled as data is.
MaskGE(d, col, bound) ==
    [l \in Labels(d) |->
        LET c == Cell(RowAt(d, l), col)
        IN  NotNa(c) /\ c.t >= bound]

\* data[col].notna() & (data[col] <= bound), labelled as data is.
MaskLE(d, col, bound) ==
    [l \in Labels(d) |->
        LET c == Cell(RowAt(d, l), col)
        IN  NotNa(c) /\ c.t <= bound]

\* a | b of two boolean Series: aligned on the union of the labels, a label
\* missing on one side counting as False.
SeriesOr(a, b) ==
    [l \in (DOMAIN a) \cup (DOMAIN b) |->
        (l \in DOMAIN a /\ a[l]) \/ (l \in DOMAIN b /\ b[l])]

\* mask.sum()
SeriesSum(m) == Cardinality({l \in DOMAIN m : m[l]})

\* mask | flag, flag a scalar
SeriesOrScalar(m, flag) == [l \in DOMAIN m |-> m[l] \/ flag]

\* data[mask]: the mask is reindexed to the frame's labels, and a label of
\* the frame the mask does not have is an IndexingError.
GetItemBool(d, m) ==
    IF Labels(d) \subseteq DOMAIN m
    THEN [d EXCEPT !.rows = SelectSeq(d.rows, LAMBDA r : m[r.idx])]
    ELSE Raise(d, "IndexingError")

(***************************************************************************)
(* apply_filters                                                           *)
(***************************************************************************)
NoList == [none |-> TRUE, vals |-> {}]
List(vals) == [none |-> FALSE, vals |-> vals]
NoDate == [none |-> TRUE, t |-> 0]
Date(t) == [none |-> FALSE, t |-> t]

\* Mutant of StartDateStep: the bound without its empty-match fallback.
StartDateStepStrict(data, start_date) ==
    LET mask_call == IF COL_TS \in data.columns
                     THEN MaskGE(data, COL_TS, start_date)
                     ELSE FalseSeries(data)
        mask_email == IF COL_ACT \in data.columns
                      THEN MaskGE(data, COL_ACT, start_date)
                      ELSE FalseSeries(data)
    IN  GetItemBool(data, SeriesOr(mask_call, mask_email))

\* The start_date block of apply_filters.
StartDateStep(data, start_date) ==
    LET mask_call == IF COL_TS \in data.columns
                     THEN MaskGE(data, COL_TS, start_date)
                     ELSE FalseSeries(data)
        mask_email == IF COL_ACT \in data.columns
                      THEN MaskGE(data, COL_ACT, start_date)
                      ELSE FalseSeries(data)
        either == SeriesOr(mask_call, mask_email)
    IN  GetItemBool(data, SeriesOrScalar(either, SeriesSum(either) = 0))

\* Mutant of EndDateStep: the bound compared with >= instead of <=.
EndDateStepAfter(data, end_date) ==
    LET mask_call == IF COL_TS \in data.columns
                     THEN MaskGE(data, COL_TS, end_date)
                     ELSE FalseSeries(data)
        mask_email == IF COL_ACT \in data.columns
                      THEN MaskGE(data, COL_ACT, end_date)
                      ELSE FalseSeries(data)
        either == SeriesOr(mask_call, mask_email)
    IN  GetItemBool(data, SeriesOrScalar(either, SeriesSum(either) = 0))

\* The end_date block of apply_filters.
EndDateStep(data, end_date) ==
    LET mask_call == IF COL_TS \in data.columns
                     THEN MaskLE(data, COL_TS, end_date)
                     ELSE FalseSeries(data)
        mask_email == IF COL_ACT \in data.columns
                      THEN MaskLE(data, COL_ACT, end_date)
                      ELSE FalseSeries(data)
        either == SeriesOr(mask_call, mask_email)
    IN  GetItemBool(data, SeriesOrScalar(either, SeriesSum(either) = 0))

\* Series.fillna("") of a string cell.
FillNa(v) == IF v = NaN THEN "" ELSE v

\* Mutant of filter_if_possible: a list is applied even when it is empty.
filter_if_possible_any_list(df_, column, values) ==
    IF ~values.none /\ column \in df_.columns
    THEN [df_ EXCEPT !.rows =
             SelectSeq(df_.rows, LAMBDA r : FillNa(Cell(r, column)) \in values.vals)]
    ELSE df_

\* filter_if_possible(df_, column, values)
filter_if_possible(df_, column, values) ==
    IF (~values.none /\ values.vals # {}) /\ column \in df_.columns
    THEN [df_ EXCEPT !.rows =
             SelectSeq(df_.rows, LAMBDA r : FillNa(Cell(r, column)) \in values.vals)]
    ELSE df_

\* The frame after the pd.to_datetime loop of apply_filters.
Converted(d) == ConvertColumn(ConvertColumn(d, COL_TS), COL_ACT)

\* The frame after the "if start_date is not None" block.
AfterStart(d, c) ==
    IF c.start_date.none THEN Converted(d)
    ELSE StartDateStep(Converted(d), c.start_date.t)

\* The frame after the "if end_date is not None" block (an exception of the
\* start block propagates).
AfterEnd(d, c) ==
    LET data == AfterStart(d, c)
    IN  IF data.raised # NoError \/ c.end_date.none THEN data
        ELSE EndDateStep(data, c.end_date.t)

\* The categorical part of apply_filters.
CategoricalFilters(d, c) ==
    LET d1 == filter_if_possible(d, COL_CAMP, c.campaigns)
        d2 == filter_if_possible(d1, COL_TITLE, c.titles)
        d3 == filter_if_possible(d2, COL_SECTOR, c.sectors)
        d4 == filter_if_possible(d3, COL_SIZE, c.sizes)
        d5 == filter_if_possible(d4, COL_LOC, c.locations)
    IN  d5

\* Mutant of apply_filters: the categorical lists applied before the dates.
apply_filters_categorical_first(d, c) == AfterEnd(CategoricalFilters(d, c), c)

\* apply_filters(df, campaigns=..., ..., end_date=...)
apply_filters(d, c) ==
    LET dated == AfterEnd(d, c)
    IN  IF dated.raised # NoError THEN dated
        ELSE CategoricalFilters(dated, c)

(***************************************************************************)
(* The tag vocabularies.  A tag is the sequence of the pieces of its text. *)
(***************************************************************************)
TagMeeting == <<"Meeting">>
TagPitch == <<"Pitch">>
TagSansSuite == <<"Sans", " ", "Suite">>
TagStandard == <<"Standard">>
TagNoAnswer == <<"No", " ", "answer">>
TagNumeroFaux == <<"Numéro", " ", "Faux">>

CALL_TAGS_ALL ==
    {TagMeeting, TagPitch, TagSansSuite, TagStandard, TagNoAnswer, TagNumeroFaux}

CALL_TAGS_CONNECTED == {TagMeeting, TagPitch, TagSansSuite, TagStandard}

CALL_TAGS_PITCHED == {TagMeeting, TagPitch}

CALL_TAGS_RDV == {TagMeeting}

(***************************************************************************)
(* _split_tags                                                             *)
(***************************************************************************)
Delimiters == {",", ";", "|"}

\* re.split(r"[;,|]+", value_str): the parts between the runs of delimiters
\* (an empty part at either end included).
RECURSIVE SplitParts(_, _, _)
SplitParts(text, cur, acc) ==
    IF text = <<>> THEN Append(acc, cur)
    ELSE IF Head(text) \in Delimiters
         THEN IF Len(text) > 1 /\ text[2] \in Delimiters
              THEN SplitParts(Tail(text), cur, acc)
              ELSE SplitParts(Tail(text), <<>>, Append(acc, cur))
         ELSE SplitParts(Tail(text), Append(cur, Head(text)), acc)

\* str.strip(): the part without its leading and trailing blanks.
RECURSIVE Strip(_)
Strip(p) ==
    IF p = <<>> THEN p
    ELSE IF Head(p) = " " THEN Strip(Tail(p))
    ELSE IF p[Len(p)] = " " THEN Strip(SubSeq(p, 1, Len(p) - 1))
    ELSE p

\* _split_tags(tag_value): the list of the stripped, non-empty parts.
_split_tags(tag_value) ==
    IF tag_value.nan THEN <<>>
    ELSE LET parts == SplitParts(tag_value.text, <<>>, <<>>)
             stripped == [i \in 1..Len(parts) |-> Strip(parts[i])]
         IN  SelectSeq(stripped, LAMBDA p : p # <<>>)

(***************************************************************************)
(* compute_metrics                                                         *)
(***************************************************************************)
\* The missing value of a column.
MissingCell(col) ==
    CASE col \in {COL_TS, COL_ACT} -> NaT
      [] col = COL_TAGS -> NoTags
      [] OTHER -> NaN

\* if col not in data.columns: data[col] = np.nan
EnsureColumn(d, col) ==
    IF col \in d.columns THEN d
    ELSE [d EXCEPT !.columns = @ \cup {col},
                   !.rows = [i \in 1..Len(d.rows) |->
                                WithCell(d.rows[i], col, MissingCell(col))]]

\* The four columns compute_metrics reads.
MetricColumns == {COL_TS, COL_TAGS, COL_STATUS, COL_PHASE}

\* Mutant of EnsureMetricColumns: the lifecycle phase column is not added.
EnsureMetricColumnsButPhase(d) ==
    EnsureColumn(EnsureColumn(EnsureColumn(d, COL_TS), COL_TAGS), COL_STATUS)

\* The loop of compute_metrics that adds the columns the frame lacks.
EnsureMetricColumns(d) ==
    EnsureColumn(EnsureColumn(EnsureColumn(EnsureColumn(d,
        COL_TS), COL_TAGS), COL_STATUS), COL_PHASE)

\* data[col]: the Series of the cells of column col, labelled as data is.
Column(data, col) ==
    [l \in Labels(data) |-> Cell(RowAt(data, l), col)]

\* has_any_tag(tags, target_set)
has_any_tag(tags, target_set) == \E i \in 1..Len(tags) : tags[i] \in target_set

\* called_mask = data["Last Aircall call timestamp"].notna()
called_mask(ts_series) == [l \in DOMAIN ts_series |-> NotNa(ts_series[l])]

\* tags_series = data["Last used Aircall tags"].apply(_split_tags)
tags_series(tags_column) == [l \in DOMAIN tags_column |-> _split_tags(tags_column[l])]

\* Mutant of connected_mask: the tags of rows that were not called count too.
connected_mask_any_row(tags, called) ==
    [l \in DOMAIN tags |-> has_any_tag(tags[l], CALL_TAGS_CONNECTED)]

\* tags_series.apply(lambda tags: has_any_tag(tags, CALL_TAGS_CONNECTED)) & called_mask
connected_mask(tags, called) ==
    [l \in DOMAIN tags |-> has_any_tag(tags[l], CALL_TAGS_CONNECTED) /\ called[l]]

\* Mutant of pitched_mask: the tags of rows that were not called count too.
pitched_mask_any_row(tags, called) ==
    [l \in DOMAIN tags |-> has_any_tag(tags[l], CALL_TAGS_PITCHED)]

\* tags_series.apply(lambda tags: has_any_tag(tags, CALL_TAGS_PITCHED)) & called_mask
pitched_mask(tags, called) ==
    [l \in DOMAIN tags |-> has_any_tag(tags[l], CALL_TAGS_PITCHED) /\ called[l]]

\* tags_series.apply(lambda tags: has_any_tag(tags, CALL_TAGS_RDV)) & called_mask
rdv_phone_mask(tags, called) ==
    [l \in DOMAIN tags |-> has_any_tag(tags[l], CALL_TAGS_RDV) /\ called[l]]

\* mailed_mask = data["lemlist lead status"].fillna("") != ""
mailed_mask(status) == [l \in DOMAIN status |-> FillNa(status[l]) # ""]

\* Mutant of rdv_email_mask: rows with a phone meeting are not excluded.
rdv_email_mask_with_phone(phase, status, rdv_phone) ==
    [l \in DOMAIN phase |->
        phase[l] = "RDV - Bon contact" /\ status[l] = "Email replied"]

\* The rdv_email_mask expression of compute_metrics.
rdv_email_mask(phase, status, rdv_phone) ==
    [l \in DOMAIN phase |->
        /\ phase[l] = "RDV - Bon contact"
        /\ status[l] = "Email replied"
        /\ ~rdv_phone[l]]

\* n / d if d else 0.0, a rate being the fraction num / den, den > 0.
Rate(n, d) == IF d # 0 THEN [num |-> n, den |-> d] ELSE [num |-> 0, den |-> 1]

Max(a, b) == IF a >= b THEN a ELSE b

\* compute_metrics(df)
compute_metrics(d) ==
    LET data == EnsureMetricColumns(d)
    IN  IF ~(MetricColumns \subseteq data.columns)
        THEN [raised |-> "KeyError"]
        ELSE
        LET called == called_mask(Column(data, COL_TS))
            tags == tags_series(Column(data, COL_TAGS))
            status == Column(data, COL_STATUS)
            phase == Column(data, COL_PHASE)
            rdv_phone_m == rdv_phone_mask(tags, called)
            rdv_email_m == rdv_email_mask(phase, status, rdv_phone_m)
            calls_total == SeriesSum(called)
            calls_connected == SeriesSum(connected_mask(tags, called))
            calls_pitched == SeriesSum(pitched_mask(tags, called))
            rdv_phone == SeriesSum(rdv_phone_m)
            contacts_email == SeriesSum(mailed_mask(status))
            contacts_opened ==
                SeriesSum([l \in DOMAIN status |-> status[l] = "Email opened"])
            contacts_replied ==
                SeriesSum([l \in DOMAIN status |-> status[l] = "Email replied"])
            rdv_email == SeriesSum(rdv_email_m)
            rdv_total == rdv_phone + rdv_email
            overlap == SeriesSum([l \in DOMAIN called |-> rdv_email_m[l] /\ called[l]])
        IN  [raised |-> NoError,
             calls_total |-> calls_total,
             calls_connected |-> calls_connected,
             calls_pitched |-> calls_pitched,
             rdv_phone |-> rdv_phone,
             connection_rate |-> Rate(calls_connected, calls_total),
             pitch_rate |-> Rate(calls_pitched, calls_connected),
             rdv_phone_rate |-> Rate(rdv_phone, calls_total),
             contacts_email |-> contacts_email,
             contacts_opened |-> contacts_opened,
             contacts_replied |-> contacts_replied,
             open_rate |-> Rate(contacts_opened, contacts_email),
             reply_rate |-> Rate(contacts_replied, contacts_email),
             rdv_email |-> rdv_email,
             rdv_total |-> rdv_total,
             email_conv_rate |-> Rate(rdv_email, contacts_email),
             phone_conv_rate |-> Rate(rdv_phone, calls_total),
             overall_conv_rate |->
                 [num |-> rdv_total,
                  den |-> Max(contacts_email + calls_total - overlap, 1)]]

(***************************************************************************)
(* compute_call_distribution                                               *)
(***************************************************************************)
\* The order of the pieces of a tag text: that of their code points.
PieceOrder == <<" ", "Faux", "Meeting", "No", "Numéro", "Pitch", "Sans",
                "Standard", "Suite", "answer">>

PieceRank(p) == CHOOSE i \in 1..Len(PieceOrder) : PieceOrder[i] = p

\* a < b for two tag texts, as Python compares strings.
RECURSIVE TagLess(_, _)
TagLess(a, b) ==
    IF b = <<>> THEN FALSE
    ELSE IF a = <<>> THEN TRUE
    ELSE IF Head(a) = Head(b) THEN TagLess(Tail(a), Tail(b))
    ELSE PieceRank(Head(a)) < PieceRank(Head(b))

\* Mutant of ItemBefore: equal counts ordered by tag descending.
ItemBeforeTagDescending(x, y) ==
    x.count > y.count \/ (x.count = y.count /\ TagLess(y.tag, x.tag))

\* The sort key (-count, tag) of sorted(tag_counts.items(), ...).
ItemBefore(x, y) ==
    x.count > y.count \/ (x.count = y.count /\ TagLess(x.tag, y.tag))

\* sorted(items, key=...), items having distinct tags.
RECURSIVE SortItems(_)
SortItems(items) ==
    IF items = {} THEN <<>>
    ELSE LET first == CHOOSE x \in items :
                          \A y \in items \ {x} : ItemBefore(x, y)
         IN  <<first>> \o SortItems(items \ {first})

\* df.empty: no row, or no column.
IsEmpty(d) == Len(d.rows) = 0 \/ d.columns = {}

EmptyDistribution == [raised |-> NoError, rows |-> <<>>]

\* compute_call_distribution(df)
compute_call_distribution(d) ==
    IF IsEmpty(d) THEN EmptyDistribution
    ELSE IF COL_TS \notin d.columns THEN [raised |-> "KeyError", rows |-> <<>>]
    ELSE
    LET total_calls == SeriesSum(called_mask(Column(d, COL_TS)))
    IN  IF total_calls = 0 THEN EmptyDistribution
        ELSE IF COL_TAGS \notin d.columns
             THEN [raised |-> "KeyError", rows |-> <<>>]
        ELSE
        LET split == tags_series(Column(d, COL_TAGS))
            unique_tags == [l \in DOMAIN split |-> Range(split[l])]
            tags == UNION {unique_tags[l] : l \in DOMAIN split}
            tag_counts == [t \in tags |->
                              Cardinality({l \in DOMAIN split : t \in unique_tags[l]})]
            items == {[tag |-> t, count |-> tag_counts[t],
                       rate |-> [num |-> tag_counts[t], den |-> total_calls]] :
                      t \in tags}
        IN  [raised |-> NoError, rows |-> SortItems(items)]

(***************************************************************************)
(* The datasets and criteria the engines are run on.                       *)
(***************************************************************************)
\* The frame read from a file: rows labelled 0 .. n-1 (pd.read_csv).
Frame(columns, cells) ==
    [raised |-> NoError, columns |-> columns,
     rows |-> [i \in 1..Len(cells) |-> WithCell(cells[i], "idx", i - 1)]]

NoFrame == [raised |-> "not run", columns |-> {}, rows |-> <<>>]
NoSteps == [converted |-> NoFrame, after_start |-> NoFrame, after_end |-> NoFrame]

\* The frames a call of apply_filters goes through before the categorical part.
StepsOf(d, c) ==
    [converted |-> Converted(d), after_start |-> AfterStart(d, c),
     after_end |-> AfterEnd(d, c)]

NoCriteria ==
    [campaigns |-> NoList, titles |-> NoList, sectors |-> NoList, sizes |-> NoList,
     locations |-> NoList, start_date |-> NoDate, end_date |-> NoDate]
NoMetrics == [raised |-> "not run"]
NoDistribution == [raised |-> "not run", rows |-> <<>>]

(* ---- datasets for the metrics engine ---- *)
MetricTimestamps == {NaT, Text("2024-01-01"), Text("not a date")}

MetricTags ==
    {NoTags,
     Tags(<<"Meeting", ",", " ", "Pitch">>),
     Tags(<<"Pitch", ";", "|", "Pitch", " ">>),
     Tags(<<"Standard", "|", "No", " ", "answer">>)}

MetricStatuses == {NaN, "Email opened", "Email replied"}

MetricPhases == {NaN, "RDV - Bon contact"}

\* The rows a file may hold, by column.
MetricCells ==
    [ts : MetricTimestamps, tags : MetricTags, status : MetricStatuses,
     phase : MetricPhases]

MetricRow(r) ==
    [c \in MetricColumns |->
        CASE c = COL_TS -> r.ts
          [] c = COL_TAGS -> r.tags
          [] c = COL_STATUS -> r.status
          [] c = COL_PHASE -> r.phase]

\* The row r of a file that has only the columns cols.
Restrict(r, cols) == [c \in cols |-> r[c]]

MetricRows(cols) == {Restrict(MetricRow(r), cols) : r \in MetricCells}

\* Any subset of the four columns may be missing from the export.
InitMetrics ==
    /\ \E cols \in SUBSET MetricColumns, n \in 0..MaxRows :
          \E cells \in [1..n -> MetricRows(cols)] : df = Frame(cols, cells)
    /\ crit = NoCriteria
    /\ pc = "loaded"
    /\ steps = NoSteps
    /\ filtered = NoFrame
    /\ refiltered = NoFrame
    /\ metrics = NoMetrics
    /\ dist = NoDistribution

\* metrics = compute_metrics(df)
ComputeMetrics ==
    /\ pc = "loaded"
    /\ metrics' = compute_metrics(df)
    /\ pc' = "metrics"
    /\ UNCHANGED <<df, crit, steps, filtered, refiltered, dist>>

NextMetrics == ComputeMetrics

SpecMetrics == InitMetrics /\ [][NextMetrics]_vars

(* ---- datasets for the distribution engine ---- *)
\* The columns compute_call_distribution reads, and one it does not.
DistributionColumns == {COL_TS, COL_TAGS, COL_STATUS}

DistributionTags ==
    MetricTags \cup
        {Tags(<<"Meeting">>),
         Tags(<<"Sans", " ", "Suite", ",", "Numéro", " ", "Faux">>),
         Tags(<<"Pitch", ",", "Standard", ",", "Meeting">>),
         Tags(<<" ", ",", ";">>)}

DistributionCells ==
    [ts : MetricTimestamps, tags : DistributionTags, status : {"Email opened"},
     phase : {NaN}]

DistributionRows(cols) == {Restrict(MetricRow(r), cols) : r \in DistributionCells}

InitDistribution ==
    /\ \E cols \in SUBSET DistributionColumns, n \in 0..MaxRows :
          \E cells \in [1..n -> DistributionRows(cols)] : df = Frame(cols, cells)
    /\ crit = NoCriteria
    /\ pc = "loaded"
    /\ steps = NoSteps
    /\ filtered = NoFrame
    /\ refiltered = NoFrame
    /\ metrics = NoMetrics
    /\ dist = NoDistribution

\* call_dist = compute_call_distribution(df)
ComputeCallDistribution ==
    /\ pc = "loaded"
    /\ dist' = compute_call_distribution(df)
    /\ pc' = "distribution"
    /\ UNCHANGED <<df, crit, steps, filtered, refiltered, metrics>>

NextDistribution == ComputeCallDistribution

SpecDistribution == InitDistribution /\ [][NextDistribution]_vars

(* ---- datasets and criteria for the filter engine ---- *)
DateColumns == {COL_TS, COL_ACT}

CategoricalColumns == {COL_CAMP, COL_TITLE, COL_SECTOR, COL_SIZE, COL_LOC}

FilterColumns == DateColumns \cup CategoricalColumns

FilterTimestamps ==
    {NaT, Text("not a date"), Text("2024-01-01"), Text("2024-03-01")}

FilterActivities == {NaT, Text("2024-03-01")}

\* The segmentation values of a contact.
FilterProfiles ==
    {[camp |-> "A", title |-> "CEO", sector |-> "Tech", size |-> "1-10",
      loc |-> NaN],
     [camp |-> "B", title |-> NaN, sector |-> "Tech", size |-> "11-50",
      loc |-> "Paris"]}

FilterCells == [ts : FilterTimestamps, act : FilterActivities, seg : FilterProfiles]

FilterRow(r) ==
    [c \in FilterColumns |->
        CASE c = COL_TS -> r.ts
          [] c = COL_ACT -> r.act
          [] c = COL_CAMP -> r.seg.camp
          [] c = COL_TITLE -> r.seg.title
          [] c = COL_SECTOR -> r.seg.sector
          [] c = COL_SIZE -> r.seg.size
          [] c = COL_LOC -> r.seg.loc]

FilterRows(cols) == {Restrict(FilterRow(r), cols) : r \in FilterCells}

\* The column sets of the exports: complete, or without some of the columns
\* apply_filters looks at.
FilterColumnSets ==
    {FilterColumns,
     FilterColumns \ {COL_ACT},
     FilterColumns \ {COL_TS},
     FilterColumns \ DateColumns,
     FilterColumns \ {COL_LOC},
     DateColumns}

\* The analysis period: the bounds the user may pick (instant 2 lies between
\* the two dates of the exports).
FilterDates == {NoDate, Date(2)}

\* The segmentation selections the user may make.
FilterSelections ==
    {[campaigns |-> NoList, titles |-> NoList, sectors |-> NoList,
      sizes |-> NoList, locations |-> NoList],
     [campaigns |-> List({"A"}), titles |-> NoList, sectors |-> NoList,
      sizes |-> NoList, locations |-> NoList],
     [campaigns |-> List({}), titles |-> List({"CEO"}), sectors |-> NoList,
      sizes |-> NoList, locations |-> List({""})],
     [campaigns |-> NoList, titles |-> NoList, sectors |-> List({"Tech"}),
      sizes |-> List({"11-50"}), locations |-> List({"Paris", "Lyon"})]}

Criteria(sel, start_date, end_date) ==
    [campaigns |-> sel.campaigns, titles |-> sel.titles, sectors |-> sel.sectors,
     sizes |-> sel.sizes, locations |-> sel.locations,
     start_date |-> start_date, end_date |-> end_date]

InitFilters ==
    /\ \E cols \in FilterColumnSets, n \in 0..MaxRows :
          \E cells \in [1..n -> FilterRows(cols)] : df = Frame(cols, cells)
    /\ \E sel \in FilterSelections, start_date \in FilterDates,
          end_date \in FilterDates : crit = Criteria(sel, start_date, end_date)
    /\ pc = "loaded"
    /\ steps = NoSteps
    /\ filtered = NoFrame
    /\ refiltered = NoFrame
    /\ metrics = NoMetrics
    /\ dist = NoDistribution

\* filtered_df = apply_filters(df, ...)
ApplyFilters ==
    /\ pc = "loaded"
    /\ steps' = StepsOf(df, crit)
    /\ filtered' = apply_filters(df, crit)
    /\ pc' = "filtered"
    /\ UNCHANGED <<df, crit, refiltered, metrics, dist>>

\* apply_filters(filtered_df, ...): the same criteria applied to the result.
ApplyFiltersAgain ==
    /\ pc = "filtered"
    /\ filtered.raised = NoError
    /\ steps' = StepsOf(filtered, crit)
    /\ refiltered' = apply_filters(filtered, crit)
    /\ pc' = "refiltered"
    /\ UNCHANGED <<df, crit, filtered, metrics, dist>>

NextFilters == ApplyFilters \/ ApplyFiltersAgain

SpecFilters == InitFilters /\ [][NextFilters]_vars

(***************************************************************************)
(* Properties of the filter engine (checked under SpecFilters).            *)
(***************************************************************************)
\* The criteria c reduced to its single criterion k.
OnlyCriterion(c, k) == [NoCriteria EXCEPT ![k] = c[k]]

\* apply_filters run on the result of a previous call.
ApplyTo(d, c) == IF d.raised # NoError THEN d ELSE apply_filters(d, c)

\* The single-criterion steps of c run one after the other in the given order.
RECURSIVE Compose(_, _, _)
Compose(d, c, order) ==
    IF order = <<>> THEN d
    ELSE Compose(ApplyTo(d, OnlyCriterion(c, Head(order))), c, Tail(order))

ClaimedOrder ==
    <<"campaigns", "titles", "sectors", "sizes", "locations", "start_date",
      "end_date">>

SourceOrder ==
    <<"start_date", "end_date", "campaigns", "titles", "sectors", "sizes",
      "locations">>

\* C1 as stated: the result of apply_filters is that of the seven
\* single-criterion steps run in the order campaign, job title, sector,
\* company size, location, start date, end date (compared wherever those
\* steps all return).
C1_ComposesCategoricalFirst ==
    (pc # "loaded" /\ Compose(df, crit, ClaimedOrder).raised = NoError)
        => filtered = Compose(df, crit, ClaimedOrder)

\* C1 amended: the result of apply_filters (an exception included) is that of
\* the seven single-criterion steps run in the order start date, end date,
\* campaign, job title, sector, company size, location.
C1_ComposesDatesFirst ==
    /\ pc # "loaded" => filtered = Compose(df, crit, SourceOrder)
    /\ pc = "refiltered" => refiltered = Compose(filtered, crit, SourceOrder)

\* C1 witness: a call in which the start bound removed a row and a
\* categorical list then removed another.
C1_Witness ==
    /\ pc = "filtered"
    /\ ~crit.start_date.none
    /\ Len(steps.after_start.rows) < Len(df.rows)
    /\ Len(filtered.rows) < Len(steps.after_end.rows)

\* Row r of frame d has an instant that is present and >= t.
ReachesStart(d, r, t) ==
    \E col \in DateColumns \cap d.columns : NotNa(r[col]) /\ r[col].t >= t

\* Row r of frame d has an instant that is present and <= t.
ReachesEnd(d, r, t) ==
    \E col \in DateColumns \cap d.columns : NotNa(r[col]) /\ r[col].t <= t

\* Row r of frame d has no instant that is present.
Undated(d, r) == \A col \in DateColumns \cap d.columns : ~NotNa(r[col])

Retained(r, out) == r \in Range(out.rows)

C5_Idempotent ==
    pc = "refiltered" =>
        /\ refiltered.raised = NoError
        /\ refiltered.rows = filtered.rows

\* Whenever the second application returns, it returns the rows it was given.
IdempotentWhenReturning ==
    (pc = "refiltered" /\ refiltered.raised = NoError) =>
        refiltered.rows = filtered.rows

\* The categorical dimensions: the criterion and the column it filters.
Dimensions ==
    {[key |-> "campaigns", col |-> COL_CAMP],
     [key |-> "titles", col |-> COL_TITLE],
     [key |-> "sectors", col |-> COL_SECTOR],
     [key |-> "sizes", col |-> COL_SIZE],
     [key |-> "locations", col |-> COL_LOC]}

\* Dimension dim filters frame d under criteria c: its allowed-value list is
\* given and not empty, and its column exists.
Active(d, c, dim) ==
    ~c[dim.key].none /\ c[dim.key].vals # {} /\ dim.col \in d.columns

\* The value of row r (absent taken as the empty string) is in the allowed
\* list of dimension dim.
Allowed(c, r, dim) ==
    (IF r[dim.col] = NaN THEN "" ELSE r[dim.col]) \in c[dim.key].vals

\* The frames the last call of apply_filters went through, and its result.
LastResult == IF pc = "refiltered" THEN refiltered ELSE filtered

\* C12: for each categorical dimension (campaign, job title, sector, company
\* size, location), if the allowed-value list is absent or empty, or the
\* column does not exist, the dimension removes no row and raises no error;
\* otherwise exactly the rows whose value (absent treated as the empty
\* string) is in the allowed list are retained.  Stated for each dimension
\* applied alone to the dataset, and for the five applied to the rows the
\* date blocks returned.
C12_CategoricalDimensions ==
    /\ pc = "filtered" =>
          \A dim \in Dimensions :
              LET out == apply_filters(df, OnlyCriterion(crit, dim.key))
              IN  /\ out.raised = NoError
                  /\ out.columns = df.columns
                  /\ out.rows =
                        SelectSeq(Converted(df).rows,
                                  LAMBDA r : Active(df, crit, dim)
                                                => Allowed(crit, r, dim))
    /\ (pc # "loaded" /\ steps.after_end.raised = NoError) =>
          /\ LastResult.raised = NoError
          /\ LastResult.rows =
                SelectSeq(steps.after_end.rows,
                          LAMBDA r : \A dim \in Dimensions :
                              Active(steps.after_end, crit, dim)
                                  => Allowed(crit, r, dim))

\* C12 witness: a call given an empty list (which removed nothing), a list
\* for a column the dataset lacks (which removed nothing) and a list for a
\* column it has, which removed a row and retained another.
C12_Witness ==
    /\ pc = "filtered"
    /\ filtered.raised = NoError
    /\ \E dim \in Dimensions : ~crit[dim.key].none /\ crit[dim.key].vals = {}
    /\ \E dim \in Dimensions :
          crit[dim.key].vals # {} /\ dim.col \notin df.columns
    /\ \E dim \in Dimensions :
          /\ Active(df, crit, dim)
          /\ \E r \in Range(steps.after_end.rows) :
                ~Allowed(crit, r, dim) /\ ~Retained(r, filtered)
    /\ Len(filtered.rows) > 0

\* Row r of frame d has an instant that is present and between s and e.
InPeriod(d, r, s, e) ==
    \E col \in DateColumns \cap d.columns :
        NotNa(r[col]) /\ s <= r[col].t /\ r[col].t <= e

\* The last call was given a start and an end bound with start <= end, both
\* date blocks returned, and neither fell back to retaining everything: each
\* bound is reached by a row of the frame it was applied to.
BothBoundsMatched ==
    /\ pc # "loaded"
    /\ ~crit.start_date.none /\ ~crit.end_date.none
    /\ crit.start_date.t <= crit.end_date.t
    /\ steps.after_end.raised = NoError
    /\ \E q \in Range(steps.converted.rows) :
          ReachesStart(steps.converted, q, crit.start_date.t)
    /\ \E q \in Range(steps.after_start.rows) :
          ReachesEnd(steps.after_start, q, crit.end_date.t)

CellOrMissing(d, r, col) == IF col \in d.columns THEN r[col] ELSE MissingCell(col)

\* Row r of frame d has a call timestamp present.
Called(d, r) == NotNa(CellOrMissing(d, r, COL_TS))

\* Row r of frame d carries the tag t.
Carries(d, r, t) == t \in Range(_split_tags(CellOrMissing(d, r, COL_TAGS)))

Count(d, P(_)) == Cardinality({i \in 1..Len(d.rows) : P(d.rows[i])})

\* C2 as stated: on a dataset with rows, compute_call_distribution does not
\* raise when the timestamp column or the tags column is missing, and then
\* returns an empty sequence.
C2_DistributionToleratesMissingColumns ==
    (pc = "distribution" /\ Len(df.rows) > 0) =>
        /\ dist.raised = NoError
        /\ (COL_TS \notin df.columns \/ COL_TAGS \notin df.columns)
              => dist.rows = <<>>

\* C3 as stated: compute_metrics treats a timestamp that is no parseable
\* instant as absent: its result is the one it gives on the dataset in which
\* those values are missing, and it does not raise.
C3_UnparseableTimestampIsAbsent ==
    pc = "metrics" =>
        /\ metrics.raised = NoError
        /\ metrics = compute_metrics(ConvertColumn(df, COL_TS))

UnitRate(r) == 0 <= r.num /\ r.num <= r.den /\ r.den > 0

RateNames ==
    {"connection_rate", "pitch_rate", "rdv_phone_rate", "phone_conv_rate",
     "open_rate", "reply_rate", "email_conv_rate", "overall_conv_rate"}

CountNames ==
    {"calls_total", "calls_connected", "calls_pitched", "rdv_phone",
     "contacts_email", "contacts_opened", "contacts_replied", "rdv_email",
     "rdv_total"}

\* Every rate whose defining denominator is 0 is 0.
ZeroDenominatorsGiveZero(m) ==
    /\ m.calls_total = 0 =>
          m.connection_rate.num = 0 /\ m.rdv_phone_rate.num = 0
              /\ m.phone_conv_rate.num = 0
    /\ m.calls_connected = 0 => m.pitch_rate.num = 0
    /\ m.contacts_email = 0 =>
          m.open_rate.num = 0 /\ m.reply_rate.num = 0 /\ m.email_conv_rate.num = 0
    /\ (m.contacts_email = 0 /\ m.calls_total = 0) => m.overall_conv_rate.num = 0

\* C6: every rate of compute_metrics lies in [0,1] and is 0 when its
\* denominator is 0, and every count is an integer between 0 and the number
\* of rows.
C6_RatesAndCountsBounded ==
    pc = "metrics" =>
        /\ \A k \in RateNames : UnitRate(metrics[k])
        /\ ZeroDenominatorsGiveZero(metrics)
        /\ \A k \in CountNames : metrics[k] \in 0..Len(df.rows)

\* C6 witness: a result with called and e-mailed contacts, a connection rate
\* strictly between 0 and 1 and a meeting.
C6_Witness ==
    /\ pc = "metrics"
    /\ metrics.calls_total > 0 /\ metrics.contacts_email > 0
    /\ 0 < metrics.connection_rate.num
    /\ metrics.connection_rate.num < metrics.connection_rate.den
    /\ metrics.overall_conv_rate.num > 0

\* C7 as stated: every row of compute_call_distribution has a rate in [0,1].
C7_DistributionRatesInUnitInterval ==
    (pc = "distribution" /\ dist.raised = NoError) =>
        \A i \in 1..Len(dist.rows) : UnitRate(dist.rows[i].rate)

\* The frame d without the rows that have no call timestamp.
CalledRowsOnly(d) == [d EXCEPT !.rows = SelectSeq(d.rows, LAMBDA r : Called(d, r))]

\* C8: rdv_phone <= calls_pitched <= calls_connected <= calls_total, and the
\* rows without a call timestamp contribute to none of the four counts: the
\* counts are those of the dataset without these rows.
C8_PhoneFunnelNested ==
    pc = "metrics" =>
        /\ metrics.rdv_phone <= metrics.calls_pitched
        /\ metrics.calls_pitched <= metrics.calls_connected
        /\ metrics.calls_connected <= metrics.calls_total
        /\ LET m == compute_metrics(CalledRowsOnly(df))
           IN  \A k \in {"calls_total", "calls_connected", "calls_pitched",
                         "rdv_phone"} : metrics[k] = m[k]

\* C8 witness: a row without a call timestamp carries the tag Meeting, and
\* the funnel narrows between connected and pitched calls.
C8_Witness ==
    /\ pc = "metrics"
    /\ \E r \in Range(df.rows) : ~Called(df, r) /\ Carries(df, r, TagMeeting)
    /\ metrics.calls_pitched < metrics.calls_connected

\* Row r of frame d has a meeting booked by phone.
PhoneMeeting(d, r) == Called(d, r) /\ Carries(d, r, TagMeeting)

\* Row r of frame d is in the RDV lifecycle phase and has replied by e-mail.
RepliedInRdvPhase(d, r) ==
    /\ CellOrMissing(d, r, COL_PHASE) = "RDV - Bon contact"
    /\ CellOrMissing(d, r, COL_STATUS) = "Email replied"

\* C9: a row counts toward rdv_email iff its phase is "RDV - Bon contact",
\* its status is "Email replied" and it is not a called row tagged Meeting;
\* so no row counts toward both rdv_phone and rdv_email, and rdv_total is the
\* number of rows with a meeting by either channel.
C9_NoDoubleCountedMeeting ==
    pc = "metrics" =>
        /\ metrics.rdv_phone = Count(df, LAMBDA r : PhoneMeeting(df, r))
        /\ metrics.rdv_email =
              Count(df, LAMBDA r : RepliedInRdvPhase(df, r) /\ ~PhoneMeeting(df, r))
        /\ metrics.rdv_total = metrics.rdv_phone + metrics.rdv_email
        /\ metrics.rdv_total =
              Count(df, LAMBDA r : PhoneMeeting(df, r) \/ RepliedInRdvPhase(df, r))

\* C9 witness: a called row tagged Meeting that has also replied in the RDV
\* phase, next to a row counted as an e-mail meeting.
C9_Witness ==
    /\ pc = "metrics"
    /\ \E r \in Range(df.rows) : PhoneMeeting(df, r) /\ RepliedInRdvPhase(df, r)
    /\ metrics.rdv_email > 0

\* C10: compute_metrics does not raise whatever columns are missing, nor on a
\* dataset of 0 rows; a count that depends on a missing column is 0, a rate
\* whose denominator is 0 is 0, and 0 rows give an all-zero result.
C10_MissingColumnsGiveZero ==
    pc = "metrics" =>
        /\ metrics.raised = NoError
        /\ COL_TS \notin df.columns =>
              \A k \in {"calls_total", "calls_connected", "calls_pitched",
                        "rdv_phone"} : metrics[k] = 0
        /\ COL_TAGS \notin df.columns =>
              \A k \in {"calls_connected", "calls_pitched", "rdv_phone"} :
                  metrics[k] = 0
        /\ COL_STATUS \notin df.columns =>
              \A k \in {"contacts_email", "contacts_opened", "contacts_replied",
                        "rdv_email"} : metrics[k] = 0
        /\ COL_PHASE \notin df.columns => metrics.rdv_email = 0
        /\ ZeroDenominatorsGiveZero(metrics)
        /\ Len(df.rows) = 0 =>
              /\ \A k \in CountNames : metrics[k] = 0
              /\ \A k \in RateNames : metrics[k].num = 0

\* C10 witness: a dataset with rows that lacks the timestamp and phase
\* columns, on which e-mailed contacts are still counted.
C10_Witness ==
    /\ pc = "metrics"
    /\ COL_TS \notin df.columns /\ COL_PHASE \notin df.columns
    /\ metrics.raised = NoError
    /\ metrics.contacts_email > 0

\* The tokens of the parsed tag sets of the rows of d, called or not.
TokensOf(d) ==
    UNION {Range(_split_tags(CellOrMissing(d, d.rows[i], COL_TAGS))) :
           i \in 1..Len(d.rows)}

\* The number of rows of d with a call timestamp present.
CallsTotal(d) == Count(d, LAMBDA r : Called(d, r))

\* Row r of frame d has a tag text in which a token occurs more than once.
RepeatsToken(d, r) ==
    LET tags == _split_tags(CellOrMissing(d, r, COL_TAGS))
    IN  Len(tags) > Cardinality(Range(tags))

\* C11: on a dataset that has the tags column and in which calls_total > 0,
\* compute_call_distribution returns exactly one row per distinct token of
\* the parsed tag sets of the rows (called or not); the count of a row is the
\* number of dataset rows carrying its token (a row repeating the token
\* counting once), its rate is count / calls_total, and the rows are ordered
\* by count descending and, for equal counts, by token ascending.
C11_DistributionRowsPerToken ==
    (pc = "distribution" /\ COL_TAGS \in df.columns /\ CallsTotal(df) > 0) =>
        /\ dist.raised = NoError
        /\ {dist.rows[i].tag : i \in 1..Len(dist.rows)} = TokensOf(df)
        /\ Len(dist.rows) = Cardinality(TokensOf(df))
        /\ \A i \in 1..Len(dist.rows) :
              /\ dist.rows[i].count =
                    Count(df, LAMBDA r : Carries(df, r, dist.rows[i].tag))
              /\ dist.rows[i].rate =
                    [num |-> dist.rows[i].count, den |-> CallsTotal(df)]
        /\ \A i, j \in 1..Len(dist.rows) :
              i < j =>
                  \/ dist.rows[i].count > dist.rows[j].count
                  \/ /\ dist.rows[i].count = dist.rows[j].count
                     /\ TagLess(dist.rows[i].tag, dist.rows[j].tag)

\* C11 witness: a distribution in which a token is carried only by a row
\* without a call timestamp, a row repeats a token, two tokens have the
\* same count, and two tokens have different counts.
C11_Witness ==
    /\ pc = "distribution"
    /\ dist.raised = NoError
    /\ \E r \in Range(df.rows) : RepeatsToken(df, r)
    /\ \E t \in TokensOf(df) :
          \A r \in Range(df.rows) : Carries(df, r, t) => ~Called(df, r)
    /\ \E i, j \in 1..Len(dist.rows) :
          i < j /\ dist.rows[i].count = dist.rows[j].count
    /\ \E i, j \in 1..Len(dist.rows) :
          dist.rows[i].count > dist.rows[j].count

====
